---- MODULE Spec2Model ----
(***************************************************************************)
(* A model of json-parser-rs (src/src/main.rs): the line-buffered Lexer    *)
(* and the recursive-descent SyntaxAnalyser that validates a JSON document *)
(* whose root is an object.                                                *)
(*                                                                         *)
(* Characters are one-character strings, lines and token texts are         *)
(* sequences of characters.  The Lexer struct is a record with the         *)
(* struct's field names; the program position pc tells where parse() is.   *)
(***************************************************************************)
EXTENDS Integers, Sequences, FiniteSets, TLC

VARIABLES
    lexer,       \* SyntaxAnalyser.lexer: the Lexer struct
    next_token,  \* SyntaxAnalyser.next_token: the one-token lookahead
    pc,          \* "scan" | "string" | "returned" | "panic"
    results,     \* what each parse() call so far has returned, in order
    input,       \* history: the whole text the reader was opened on
    tok_begin    \* history: input position at which the current scan_token began

vars == <<lexer, next_token, pc, results, input, tok_begin>>

\* ------------------------------------------------------------------ bounds

\* Longest free tail (in characters) appended to a document head.
MaxTail == 3
\* Longest grammar-generated document (in tokens) fed to the program.
MaxDocLen == 9
\* How many times the caller invokes parse() on the same SyntaxAnalyser.
MaxCalls == 2
\* current_line_number is a usize that is only ever incremented and never
\* read; the model keeps it modulo this value (wrapping arithmetic at a small
\* width; at the real width the wrap is 2^64 line reads away).
LineNumberWrap == 4
\* Longest text (in characters) the liveness specification FairSpec runs on.
MaxFairTail == 2

\* ------------------------------------------------------------- characters

NL == "\n"
QUOTE == "\""
NoChar == ""

Digits == {"0", "1", "2", "3", "4", "5", "6", "7", "8", "9"}
Letters == {"a", "b", "c", "d", "e", "f", "g", "h", "i", "j", "k", "l", "m",
            "n", "o", "p", "q", "r", "s", "t", "u", "v", "w", "x", "y", "z"}

\* char::is_numeric and char::is_alphabetic on the (ASCII) characters used.
is_numeric(c) == c \in Digits
is_alphabetic(c) == c \in Letters

TokenType == {"LeftBrace", "RightBrace", "String", "Number", "True", "False",
              "Null", "Colon", "Comma", "LeftSquareBracket",
              "RightSquareBracket", "Other"}

Token(token_type, original_text) ==
    [token_type |-> token_type, original_text |-> original_text]

\* Option<Rc<Token>>::None
None == [token_type |-> "None", original_text |-> <<>>]

\* The keyword table built in Lexer::new.
keywords(text) ==
    IF text = <<"t", "r", "u", "e">> THEN "True"
    ELSE IF text = <<"f", "a", "l", "s", "e">> THEN "False"
    ELSE IF text = <<"n", "u", "l", "l">> THEN "Null"
    ELSE "Other"

\* ------------------------------------------------------------------ lexer

\* BufRead::read_line: the characters up to and including the first newline,
\* or everything that is left; an empty line means end of input.
RECURSIVE FirstNewline(_, _)
FirstNewline(s, i) ==
    IF i > Len(s) THEN Len(s)
    ELSE IF s[i] = NL THEN i
    ELSE FirstNewline(s, i + 1)

read_line(buf) ==
    LET k == FirstNewline(buf, 1)
    IN [line |-> SubSeq(buf, 1, k), rest |-> SubSeq(buf, k + 1, Len(buf))]

\* Lexer::new.  current_line is Some(..) from here on (no code path assigns
\* None to it), so it is modelled by the line itself and the `else` arms
\* for None (lines 84-86, 96-98, 104-106, 145-147, 188-190) do not appear.
LexerNew(text) ==
    LET r == read_line(text)
    IN [buf_reader |-> r.rest,
        tokens |-> <<>>,
        current_line |-> r.line,
        current_char |-> NoChar,
        current_offset |-> 0,
        current_line_number |-> 0,
        start |-> 0,
        current_token |-> 0]

next_character(lx) ==
    IF lx.current_offset >= Len(lx.current_line)
    THEN LET r == read_line(lx.buf_reader)
         IN [lx EXCEPT !.buf_reader = r.rest,
                       !.current_line = r.line,
                       !.current_char = NL,
                       !.current_line_number = (@ + 1) % LineNumberWrap,
                       !.current_offset = 0]
    ELSE [lx EXCEPT !.current_char = lx.current_line[lx.current_offset + 1],
                    !.current_offset = @ + 1]

peek(lx) ==
    IF lx.current_offset >= Len(lx.current_line)
    THEN NL
    ELSE lx.current_line[lx.current_offset + 1]

\* line[start..current_offset] aborts the program unless
\* start <= current_offset <= len(line).
SliceInRange(lx) ==
    /\ lx.start <= lx.current_offset
    /\ lx.current_offset <= Len(lx.current_line)

Slice(lx) == SubSeq(lx.current_line, lx.start + 1, lx.current_offset)

\* The result of a lexer step: the lexer and where the program is next.
add_token(lx, token_type) ==
    IF SliceInRange(lx)
    THEN [lx |-> [lx EXCEPT !.tokens = Append(@, Token(token_type, Slice(lx)))],
          pc |-> "scan"]
    ELSE [lx |-> lx, pc |-> "panic"]

RECURSIVE next_num(_)
next_num(lx) ==
    IF ~is_numeric(peek(lx)) THEN lx ELSE next_num(next_character(lx))

number(lx) ==
    LET l1 == next_num(lx)
        l2 == IF peek(l1) = "."
              THEN LET l3 == next_character(next_character(l1))
                   IN IF is_numeric(l3.current_char) THEN next_num(l3) ELSE l3
              ELSE l1
    IN add_token(l2, "Number")

RECURSIVE keyword_run(_)
keyword_run(lx) ==
    IF ~is_alphabetic(peek(lx)) THEN lx ELSE keyword_run(next_character(lx))

keyword(lx) ==
    LET l1 == keyword_run(lx)
    IN IF SliceInRange(l1)
       THEN add_token(l1, keywords(Slice(l1)))
       ELSE [lx |-> l1, pc |-> "panic"]

\* One pass of the while loop of the string rule (lines 163-166) followed,
\* when the loop ends, by add_token(String).
string_step(lx) ==
    IF lx.current_char = QUOTE
    THEN add_token(lx, "String")
    ELSE [lx |-> next_character(lx), pc |-> "string"]

scan_token(lx) ==
    LET l1 == next_character(lx)
        c == l1.current_char
    IN CASE c = "{" -> add_token(l1, "LeftBrace")
         [] c = "}" -> add_token(l1, "RightBrace")
         [] c = ":" -> add_token(l1, "Colon")
         [] c = "," -> add_token(l1, "Comma")
         [] c = "[" -> add_token(l1, "LeftSquareBracket")
         [] c = "]" -> add_token(l1, "RightSquareBracket")
         [] c = QUOTE -> [lx |-> next_character(l1), pc |-> "string"]
         [] c = NL \/ c = " " -> [lx |-> l1, pc |-> "scan"]
         [] OTHER -> IF is_numeric(c) THEN number(l1)
                     ELSE IF is_alphabetic(c) THEN keyword(l1)
                     ELSE add_token(l1, "Other")

at_end(lx) == lx.current_line = <<>>

\* One iteration of the loop of scan_tokens.
scan_tokens_step(lx) == scan_token([lx EXCEPT !.start = lx.current_offset])

lexer_next_token(lx) ==
    IF lx.current_token >= Len(lx.tokens)
    THEN [tok |-> None, lx |-> lx]
    ELSE [tok |-> lx.tokens[lx.current_token + 1],
          lx |-> [lx EXCEPT !.current_token = @ + 1]]

\* --------------------------------------------------------- syntax analyser

\* A SyntaxAnalyser is [lexer, next_token]; every rule returns whether it
\* matched and the analyser it leaves behind.
Analyser(lx, tok) == [lexer |-> lx, next_token |-> tok]

match_token(a, token_type) ==
    IF a.next_token = None THEN [ok |-> FALSE, a |-> a]
    ELSE IF a.next_token.token_type = token_type
    THEN LET n == lexer_next_token(a.lexer)
         IN [ok |-> TRUE, a |-> Analyser(n.lx, n.tok)]
    ELSE [ok |-> FALSE, a |-> a]

RECURSIVE object(_), object_loop(_), value(_), array(_), array_loop(_)

\* The loop of object (lines 231-238): ret is TRUE when the loop body
\* executed `return false`, FALSE when it ended by break.
object_loop(a) ==
    LET s == match_token(a, "String")
        c == match_token(s.a, "Colon")
        v == value(c.a)
        body == IF ~s.ok THEN [ret |-> FALSE, a |-> s.a]
                ELSE IF ~c.ok THEN [ret |-> TRUE, a |-> c.a]
                ELSE IF ~v.ok THEN [ret |-> TRUE, a |-> v.a]
                ELSE [ret |-> FALSE, a |-> v.a]
    IN IF body.ret THEN body
       ELSE LET m == match_token(body.a, "Comma")
            IN IF ~m.ok THEN [ret |-> FALSE, a |-> m.a]
               ELSE object_loop(m.a)

object(a) ==
    LET lb == match_token(a, "LeftBrace")
    IN IF ~lb.ok THEN [ok |-> FALSE, a |-> lb.a]
       ELSE LET l == object_loop(lb.a)
            IN IF l.ret THEN [ok |-> FALSE, a |-> l.a]
               ELSE match_token(l.a, "RightBrace")

value(a) ==
    LET s == match_token(a, "String")
        n == match_token(a, "Number")
        t == match_token(a, "True")
        f == match_token(a, "False")
        z == match_token(a, "Null")
    IN IF s.ok THEN s
       ELSE IF n.ok THEN n
       ELSE IF t.ok THEN t
       ELSE IF f.ok THEN f
       ELSE IF z.ok THEN z
       ELSE LET o == object(a)
            IN IF o.ok THEN o ELSE array(o.a)

\* The loop of array (lines 259-262), entered after a value and a comma.
array_loop(a) ==
    LET v == value(a)
    IN IF ~v.ok THEN [ret |-> TRUE, a |-> v.a]
       ELSE LET m == match_token(v.a, "Comma")
            IN IF ~m.ok THEN [ret |-> FALSE, a |-> m.a]
               ELSE array_loop(m.a)

\* array that insists on a first value.
array_needs_value(a) ==
    LET lb == match_token(a, "LeftSquareBracket")
    IN IF ~lb.ok THEN [ok |-> FALSE, a |-> lb.a]
       ELSE LET v == value(lb.a)
                m == match_token(v.a, "Comma")
                l == IF ~v.ok THEN [ret |-> TRUE, a |-> v.a]
                     ELSE IF ~m.ok THEN [ret |-> FALSE, a |-> m.a]
                     ELSE array_loop(m.a)
            IN IF l.ret THEN [ok |-> FALSE, a |-> l.a]
               ELSE match_token(l.a, "RightSquareBracket")

array(a) ==
    LET lb == match_token(a, "LeftSquareBracket")
    IN IF ~lb.ok THEN [ok |-> FALSE, a |-> lb.a]
       ELSE LET v == value(lb.a)
                m == match_token(v.a, "Comma")
                l == IF ~v.ok THEN [ret |-> FALSE, a |-> v.a]
                     ELSE IF ~m.ok THEN [ret |-> FALSE, a |-> m.a]
                     ELSE array_loop(m.a)
            IN IF l.ret THEN [ok |-> FALSE, a |-> l.a]
               ELSE match_token(l.a, "RightSquareBracket")

\* parse() starting from value instead of object.
parse_tail_value(a) ==
    LET n == lexer_next_token(a.lexer)
    IN value(Analyser(n.lx, n.tok))

\* parse() once scan_tokens() has returned (lines 224-225).
parse_tail(a) ==
    LET n == lexer_next_token(a.lexer)
    IN object(Analyser(n.lx, n.tok))

\* ----------------------------------------------------------------- inputs

\* The characters free tails are made of.
Chars == {"{", "}", "[", "]", ":", ",", QUOTE, "1", ".", " ", NL, "a", "@"}

RECURSIVE TextsUpTo(_)
TextsUpTo(n) ==
    IF n = 0 THEN {<<>>}
    ELSE LET shorter == TextsUpTo(n - 1)
         IN shorter \cup {Append(t, c) : t \in shorter, c \in Chars}

\* Document heads a free tail is appended to: nothing, an object opened up
\* to the value of its first member, and the same with that value an array
\* just opened.
Heads == {<<>>,
          <<"{", QUOTE, "a", QUOTE, ":">>,
          <<"{", QUOTE, "a", QUOTE, ":", "[">>}

\* The token-level grammar of the validator, as sets of token-type sequences
\* of a given length:
\*   object := '{' [ member (',' member)* ] '}'    member := String ':' value
\*   value  := String | Number | True | False | Null | object | array
\*   array  := '[' [ value (',' value)* ] ']'
Scalars == {"String", "Number", "True", "False", "Null"}

RECURSIVE ValueSeqs(_), ObjectSeqs(_), ArraySeqs(_), MemberLists(_), ValueLists(_)

ValueSeqs(n) ==
    IF n < 1 THEN {}
    ELSE IF n = 1 THEN {<<s>> : s \in Scalars}
    ELSE ObjectSeqs(n) \cup ArraySeqs(n)

\* member (',' member)* of total length n
MemberLists(n) ==
    IF n < 3 THEN {}
    ELSE {<<"String", "Colon">> \o v : v \in ValueSeqs(n - 2)}
         \cup UNION {{<<"String", "Colon">> \o v \o <<"Comma">> \o r :
                        v \in ValueSeqs(k), r \in MemberLists(n - k - 3)} :
                     k \in 1..(n - 6)}

\* value (',' value)* of total length n
ValueLists(n) ==
    IF n < 1 THEN {}
    ELSE ValueSeqs(n)
         \cup UNION {{v \o <<"Comma">> \o r :
                        v \in ValueSeqs(k), r \in ValueLists(n - k - 1)} :
                     k \in 1..(n - 2)}

ObjectSeqs(n) ==
    IF n < 2 THEN {}
    ELSE IF n = 2 THEN {<<"LeftBrace", "RightBrace">>}
    ELSE {<<"LeftBrace">> \o m \o <<"RightBrace">> : m \in MemberLists(n - 2)}

ArraySeqs(n) ==
    IF n < 2 THEN {}
    ELSE IF n = 2 THEN {<<"LeftSquareBracket", "RightSquareBracket">>}
    ELSE {<<"LeftSquareBracket">> \o v \o <<"RightSquareBracket">> :
            v \in ValueLists(n - 2)}

\* Every document of the grammar of at most MaxDocLen tokens.
GrammarObjects == UNION {ObjectSeqs(n) : n \in 0..MaxDocLen}

\* The text a token of each type is written as.
Lexeme(token_type) ==
    CASE token_type = "LeftBrace" -> <<"{">>
      [] token_type = "RightBrace" -> <<"}">>
      [] token_type = "LeftSquareBracket" -> <<"[">>
      [] token_type = "RightSquareBracket" -> <<"]">>
      [] token_type = "Colon" -> <<":">>
      [] token_type = "Comma" -> <<",">>
      [] token_type = "String" -> <<QUOTE, "a", QUOTE>>
      [] token_type = "Number" -> <<"1">>
      [] token_type = "True" -> <<"t", "r", "u", "e">>
      [] token_type = "False" -> <<"f", "a", "l", "s", "e">>
      [] token_type = "Null" -> <<"n", "u", "l", "l">>
      [] OTHER -> <<"@">>

RECURSIVE Render(_)
Render(types) ==
    IF types = <<>> THEN <<>>
    ELSE Lexeme(Head(types)) \o Render(Tail(types))

\* The texts the program is run on.
Inputs ==
    {h \o t : h \in Heads, t \in TextsUpTo(MaxTail)}
    \cup {Render(d) : d \in GrammarObjects}

\* ---------------------------------------------------------- state machine

\* How many characters of the input next_character has handed out of its
\* line buffers so far.
Pos(lx) ==
    Len(input) - Len(lx.buf_reader) - (Len(lx.current_line) - lx.current_offset)

\* main: Lexer::new(buffer), SyntaxAnalyser::new(lexer), then parse() is
\* entered and is about to run scan_tokens().
Init ==
    /\ input \in Inputs
    /\ lexer = LexerNew(input)
    /\ next_token = None
    /\ pc = "scan"
    /\ results = <<>>
    /\ tok_begin = 0

\* One iteration of the loop of scan_tokens: start := current_offset, then
\* scan_token() up to the loop of the string rule.
ScanToken ==
    /\ pc = "scan"
    /\ ~at_end(lexer)
    /\ LET r == scan_tokens_step(lexer)
       IN /\ lexer' = r.lx
          /\ pc' = r.pc
    /\ tok_begin' = Pos(lexer)
    /\ UNCHANGED <<next_token, results, input>>

\* One pass of the loop of the string rule; on the closing quote the String
\* token is added and scan_tokens goes on.
StringLoop ==
    /\ pc = "string"
    /\ LET r == string_step(lexer)
       IN /\ lexer' = r.lx
          /\ pc' = r.pc
    /\ UNCHANGED <<next_token, results, input, tok_begin>>

\* scan_tokens() has found at_end(): parse() takes the first token, runs
\* object() and returns its result.
ParseReturn ==
    /\ pc = "scan"
    /\ at_end(lexer)
    /\ LET r == parse_tail(Analyser(lexer, next_token))
       IN /\ lexer' = r.a.lexer
          /\ next_token' = r.a.next_token
          /\ results' = Append(results, r.ok)
    /\ pc' = "returned"
    /\ UNCHANGED <<input, tok_begin>>

\* The caller invokes parse() again on the same SyntaxAnalyser.
ParseAgain ==
    /\ pc = "returned"
    /\ Len(results) < MaxCalls
    /\ pc' = "scan"
    /\ UNCHANGED <<lexer, next_token, results, input, tok_begin>>

Next == ScanToken \/ StringLoop \/ ParseReturn \/ ParseAgain

Spec == Init /\ [][Next]_vars

\* The same program on the short texts only, for the liveness property.
InitShort == Init /\ input \in TextsUpTo(MaxFairTail)

\* parse() runs on one thread with nothing to wait for: a step that can be
\* taken is taken.
FairSpec == InitShort /\ [][Next]_vars /\ WF_vars(Next)

\* ------------------------------------------------- whole runs as a function

\* The outcome of main on a text, by iterating the steps above from
\* Lexer::new: "true" / "false" (what the first parse() returns), "panic"
\* (the program aborts) or "diverges" (the run comes back to a state it has
\* been in, so it never ends).
RECURSIVE RunFrom(_, _, _)
RunFrom(lx, at, seen) ==
    IF at = "panic" THEN "panic"
    ELSE IF <<lx, at>> \in seen THEN "diverges"
    ELSE IF at = "string"
    THEN LET r == string_step(lx)
         IN RunFrom(r.lx, r.pc, seen \cup {<<lx, at>>})
    ELSE IF at_end(lx)
    THEN IF parse_tail(Analyser(lx, None)).ok THEN "true" ELSE "false"
    ELSE LET r == scan_tokens_step(lx)
         IN RunFrom(r.lx, r.pc, seen \cup {<<lx, at>>})

Outcome(text) == RunFrom(LexerNew(text), "scan", {})

\* The token sequence as the analyser sees it, and a fresh analyser over
\* given tokens (a lexer whose scan_tokens has produced them).
Types(tokens) == [i \in 1..Len(tokens) |-> tokens[i].token_type]

Scanned(tokens) ==
    [LexerNew(<<>>) EXCEPT !.tokens = tokens]

Accepts(tokens) == parse_tail(Analyser(Scanned(tokens), None))

\* ------------------------------------------------------------------ claims

\* The tokens scan_tokens has produced so far.
Toks == lexer.tokens

\* parse() has returned exactly once and nothing has happened since.
FirstReturn == pc = "returned" /\ Len(results) = 1

\* s with e put in after its first i elements.
InsertAt(s, i, e) == SubSeq(s, 1, i) \o <<e>> \o SubSeq(s, i + 1, Len(s))

Closer(b) == IF b = "LeftBrace" THEN "RightBrace" ELSE "RightSquareBracket"

\* Braces and brackets of a token-type sequence are properly nested; open
\* is the stack of closers still owed.
RECURSIVE Nested(_, _)
Nested(types, open) ==
    IF types = <<>> THEN open = <<>>
    ELSE LET t == Head(types)
         IN IF t \in {"LeftBrace", "LeftSquareBracket"}
            THEN Nested(Tail(types), <<Closer(t)>> \o open)
            ELSE IF t \in {"RightBrace", "RightSquareBracket"}
            THEN open # <<>> /\ Head(open) = t /\ Nested(Tail(types), Tail(open))
            ELSE Nested(Tail(types), open)

Balanced(types) == Nested(types, <<>>)

BraceTypes ==
    {"LeftBrace", "RightBrace", "LeftSquareBracket", "RightSquareBracket"}

\* C1: when the tokens are a well-formed root object followed by one or more
\* further tokens, parse() returns false.
C1_LeftoverRejected ==
    (/\ Len(results) >= 1
     /\ \E k \in 1..(Len(Toks) - 1) : Types(SubSeq(Toks, 1, k)) \in GrammarObjects)
    => results[1] = FALSE

\* A Comma immediately followed by a closing RightBrace or RightSquareBracket.
TrailingComma(types) ==
    \E i \in 1..(Len(types) - 1) :
        /\ types[i] = "Comma"
        /\ types[i + 1] \in {"RightBrace", "RightSquareBracket"}

\* C2: a token sequence in which a Comma is immediately followed by the
\* closing brace or bracket makes parse() return false.  Stated for the runs
\* in which parse() has consumed every token, so that tokens left over after
\* the root object (C1) play no part in it.
C2_TrailingCommaRejected ==
    (FirstReturn /\ next_token = None /\ TrailingComma(Types(Toks)))
    => results[1] = FALSE

\* C3: when parse() accepts a balanced token sequence, the sequence with one
\* more brace or bracket put in anywhere is not accepted.  Stated for
\* acceptance with every token consumed, on both sides, so that tokens left
\* over after the root object (C1) play no part in it.
C3_ExtraBraceRejected ==
    (FirstReturn /\ results[1] /\ next_token = None /\ Balanced(Types(Toks)))
    => \A i \in 0..Len(Toks) : \A b \in BraceTypes :
          LET r == Accepts(InsertAt(Toks, i, Token(b, Lexeme(b))))
          IN ~(r.ok /\ r.a.next_token = None)

\* C4: every run of parse() ends.  The claim says it ends by returning a
\* boolean; stated here in the weaker form that it ends at all, by
\* returning or by aborting, which is what "no lexer loop runs forever" needs.
C4_Terminates == <>(pc \in {"returned", "panic"})

\* C5: every token sequence the grammar generates from `object` makes
\* parse() return true.
C5_Complete ==
    (Len(results) >= 1 /\ Types(Toks) \in GrammarObjects) => results[1] = TRUE

\* A run that accepted an object holding an empty array inside an array.
C5_Witness ==
    /\ Len(results) >= 1
    /\ results[1] = TRUE
    /\ Types(Toks) = <<"LeftBrace", "String", "Colon", "LeftSquareBracket",
                       "LeftSquareBracket", "RightSquareBracket",
                       "RightSquareBracket", "RightBrace">>

Punctuation == {"{", "}", "[", "]", ":", ","}

QuotesBefore(text, p) == Cardinality({q \in 1..(p - 1) : text[q] = QUOTE})

\* C6: putting a space or a newline between two adjacent tokens does not
\* change what the run yields.  Stated for the boundary in front of a
\* punctuation character that is outside every string literal (an even number
\* of quotes precedes it): the rule table starts a new token there whatever
\* comes before.
C6_WhitespaceInvariant ==
    FirstReturn
    => \A p \in 2..Len(input) : \A w \in {" ", NL} :
          (input[p] \in Punctuation /\ QuotesBefore(input, p) % 2 = 0)
          => Outcome(InsertAt(input, p - 1, w))
               = (IF results[1] THEN "true" ELSE "false")

\* C7: parse() returns false when there are no tokens and when the first
\* token is not LeftBrace.
C7_RootIsObject ==
    (Len(results) >= 1 /\ (Toks = <<>> \/ Toks[1].token_type # "LeftBrace"))
    => results[1] = FALSE

\* A run on a bare array at the top level.
C7_Witness ==
    /\ Len(results) >= 1
    /\ Types(Toks) = <<"LeftSquareBracket", "RightSquareBracket">>
    /\ results[1] = FALSE

\* C8: on a document of the grammar, a second parse() call returns what the
\* first returned.
C8_Idempotent ==
    (Len(results) = 2 /\ Types(Toks) \in GrammarObjects)
    => results[2] = results[1]

\* C9: a Number token holds digits and `.` only; the character after the `.`
\* is not taken into the token when it is not a digit.
C9_NumberText ==
    \A i \in 1..Len(Toks) :
        Toks[i].token_type = "Number"
        => \A k \in 1..Len(Toks[i].original_text) :
              Toks[i].original_text[k] \in Digits \cup {"."}

\* C10: add_token never aborts on its slice, and the text of the token it
\* adds is exactly the part of the input consumed for that token.
C10_SpanExact ==
    [][/\ pc' # "panic"
       /\ Len(lexer'.tokens) > Len(lexer.tokens)
          => lexer'.tokens[Len(lexer'.tokens)].original_text
               = SubSeq(input, tok_begin' + 1, Pos(lexer'))]_vars

====
